---- MODULE Spec2Model ----
(***************************************************************************)
(* Student / Book / Loan registry canister: one durable id counter shared  *)
(* by three durable id-keyed tables, with the validating CRUD handlers of  *)
(* student.rs, book.rs and loan.rs.  Calls run one at a time to completion *)
(* (single-threaded canister dispatch), so each handler is one action.     *)
(***************************************************************************)
EXTENDS Naturals, Sequences, FiniteSets

(* ------------------------------ bounds --------------------------------- *)
\* the counter is capped: no create is attempted once it holds MaxId
MaxId == 2
\* the host clock stops advancing at MaxTime
MaxTime == 1

(* ------------------------------ inputs --------------------------------- *)
Dune == <<"D", "u", "n", "e">>
Herbert == <<"H", "e", "r", "b", "e", "r", "t">>
FHerbert == <<"F", ".", " ", "H", "e", "r", "b", "e", "r", "t">>

TitleInputs == {<<" ">>, Dune}
AuthorInputs == {<<>>, Herbert, FHerbert}
NameInputs == {<<"\n">>, <<" ", "a", " ">>, <<"b">>}
EmailInputs == {<<>>, <<"e">>, <<"f">>}

BookPayload == [title : TitleInputs, author : AuthorInputs]
\* the two valid Student payloads differ in both fields
StudentPayload ==
    {p \in [name : NameInputs, email : EmailInputs] :
        (p.name = <<"b">>) <=> (p.email = <<"f">>)}
\* one payload per zero field, and two valid ones that differ in every field
LoanPayload ==
    {[student_id |-> t[1], book_id |-> t[2], loan_date |-> t[3]] :
        t \in {<<0, 1, 1>>, <<1, 0, 1>>, <<1, 1, 0>>, <<1, 2, 1>>, <<2, 1, 2>>}}

\* ids a caller may pass: every id the counter can issue, and one it cannot
IdInputs == 0..MaxId

(* ------------------------------ state ---------------------------------- *)
VARIABLES
    cell,             \* durable segment 0: <<>> never written, else <<value>>
    ID_COUNTER,       \* the process's IdCell: <<>> before first use, else <<value>>
    STUDENT_STORAGE,  \* durable table: id -> encoded Student
    BOOK_STORAGE,     \* durable table: id -> encoded Book
    LOAN_STORAGE,     \* durable table: id -> encoded Loan
    now,              \* the host clock read by time()
    last,             \* the latest call and what it returned
    issued,           \* history: <<table, id>> of each id the allocator returned
    deleted           \* history: <<table, id>> of every successful delete

vars == <<cell, ID_COUNTER, STUDENT_STORAGE, BOOK_STORAGE, LOAN_STORAGE,
          now, last, issued, deleted>>

None == <<>>
Some(x) == <<x>>

(* --------------------------- string helpers ---------------------------- *)
is_whitespace(c) == c \in {" ", "\t", "\n"}

RECURSIVE trim_start(_)
trim_start(s) ==
    IF s = <<>> THEN s
    ELSE IF is_whitespace(Head(s)) THEN trim_start(Tail(s)) ELSE s

RECURSIVE trim_end(_)
trim_end(s) ==
    IF s = <<>> THEN s
    ELSE IF is_whitespace(s[Len(s)]) THEN trim_end(SubSeq(s, 1, Len(s) - 1)) ELSE s

trim(s) == trim_end(trim_start(s))

is_empty(s) == Len(s) = 0

(* ------------------------------ codec ---------------------------------- *)
Book_to_bytes(b) == <<b.id, b.title, b.author, b.created_at, b.updated_at>>
\* (variant: title and author decoded in each other's place)
Book_from_bytes_swapped(t) ==
    [id |-> t[1], title |-> t[3], author |-> t[2],
     created_at |-> t[4], updated_at |-> t[5]]

Book_from_bytes(t) ==
    [id |-> t[1], title |-> t[2], author |-> t[3],
     created_at |-> t[4], updated_at |-> t[5]]

Student_to_bytes(s) == <<s.id, s.name, s.email, s.created_at, s.updated_at>>
Student_from_bytes(t) ==
    [id |-> t[1], name |-> t[2], email |-> t[3],
     created_at |-> t[4], updated_at |-> t[5]]

Loan_to_bytes(l) ==
    <<l.id, l.student_id, l.book_id, l.loan_date, l.created_at, l.updated_at>>
Loan_from_bytes(t) ==
    [id |-> t[1], student_id |-> t[2], book_id |-> t[3], loan_date |-> t[4],
     created_at |-> t[5], updated_at |-> t[6]]

(* ------------------------- table primitives ---------------------------- *)
EmptyMap == [k \in {} |-> <<>>]

\* (variant: nothing is written when an entry with the same two leading
\* payload fields is already stored under another key)
MapInsert_deduplicating(m, k, bytes) ==
    IF \E x \in DOMAIN m \ {k} : m[x][2] = bytes[2] /\ m[x][3] = bytes[3]
    THEN m
    ELSE [x \in DOMAIN m \cup {k} |-> IF x = k THEN bytes ELSE m[x]]

MapInsert(m, k, bytes) == [x \in DOMAIN m \cup {k} |-> IF x = k THEN bytes ELSE m[x]]
\* (variant: the key and every key below it are dropped)
MapRemove_and_below(m, k) == [x \in {y \in DOMAIN m : y > k} |-> m[x]]

MapRemove(m, k) == [x \in DOMAIN m \ {k} |-> m[x]]

\* (variant: the keys in descending order)
RECURSIVE SortedKeys_descending(_)
SortedKeys_descending(S) ==
    IF S = {} THEN <<>>
    ELSE LET hi == CHOOSE x \in S : \A y \in S : x >= y
         IN <<hi>> \o SortedKeys_descending(S \ {hi})

\* the keys of a table in ascending order, as iter() yields them
RECURSIVE SortedKeys(_)
SortedKeys(S) ==
    IF S = {} THEN <<>>
    ELSE LET lo == CHOOSE x \in S : \A y \in S : x <= y
         IN <<lo>> \o SortedKeys(S \ {lo})

(* ------------------------------ results -------------------------------- *)
Ok(v) == [tag |-> "Ok", val |-> v]
NotFound(id) == [tag |-> "NotFound", id |-> id]
InvalidInput == [tag |-> "InvalidInput"]

Call(op, kind, id, payload, res) ==
    [op |-> op, kind |-> kind, id |-> id, payload |-> payload, res |-> res]

(* ----------------------------- allocator ------------------------------- *)
\* (variant: the cell is given the default whatever the segment holds)
CellInit_always_default(mem, default) == default

\* IdCell::init: an unwritten segment is given the default, a written one is read
CellInit(mem, default) == IF mem = <<>> THEN default ELSE mem[1]

\* the counter value the call sees (the thread-local is built on first use)
CounterValue == IF ID_COUNTER = <<>> THEN CellInit(cell, 0) ELSE ID_COUNTER[1]

\* (variant: the value is written back unchanged)
Incremented_same(current_value) == current_value

\* (variant: the counter is advanced by two)
Incremented_by_two(current_value) == current_value + 2

\* the value written back: current_value + 1 (MaxId keeps it far below u64::MAX)
Incremented(current_value) == current_value + 1

\* (variant: the lowest id no table holds is handed out again)
NextId_lowest_free ==
    LET used == DOMAIN STUDENT_STORAGE \cup DOMAIN BOOK_STORAGE \cup DOMAIN LOAN_STORAGE
    IN CHOOSE i \in 0..MaxId : i \notin used /\ \A j \in 0..MaxId : j < i => j \in used

\* (variant: the value just written is used as the id)
NextId_post_increment == CounterValue + 1

\* Cell::set(current_value + 1) hands back the value it replaced
NextId == CounterValue

\* the ID_COUNTER.with(..) block of a create on table `kind`
Allocate(kind) ==
    /\ CounterValue < MaxId
    /\ ID_COUNTER' = Some(Incremented(CounterValue))
    /\ cell' = Some(Incremented(CounterValue))
    /\ issued' = Append(issued, <<kind, NextId>>)

Init ==
    /\ cell = <<>>
    /\ ID_COUNTER = <<>>
    /\ STUDENT_STORAGE = EmptyMap
    /\ BOOK_STORAGE = EmptyMap
    /\ LOAN_STORAGE = EmptyMap
    /\ now = 0
    /\ last = Call("init", "none", 0, <<>>, [tag |-> "none"])
    /\ issued = <<>>
    /\ deleted = {}

(* ------------------------------ students ------------------------------ *)
_get_all_students ==
    [i \in 1..Cardinality(DOMAIN STUDENT_STORAGE) |->
        Student_from_bytes(STUDENT_STORAGE[SortedKeys(DOMAIN STUDENT_STORAGE)[i]])]

_get_student(id) ==
    IF id \in DOMAIN STUDENT_STORAGE THEN Some(Student_from_bytes(STUDENT_STORAGE[id]))
    ELSE None

\* (variant: only the name is validated)
StudentInvalid_name_only(payload) == is_empty(trim(payload.name))

StudentInvalid(payload) == is_empty(trim(payload.name)) \/ is_empty(trim(payload.email))

\* (variant: students are numbered by the size of their own table)
new_student_table_numbered(id, payload) ==
    [id |-> Cardinality(DOMAIN STUDENT_STORAGE), name |-> payload.name,
     email |-> payload.email, created_at |-> now, updated_at |-> None]

\* the record a create builds
new_student(id, payload) ==
    [id |-> id, name |-> payload.name, email |-> payload.email,
     created_at |-> now, updated_at |-> None]

\* (variant: the update re-stamps the creation time)
updated_student_restamped(student, payload) ==
    [student EXCEPT !.name = payload.name, !.email = payload.email,
                    !.created_at = now + 1, !.updated_at = Some(now)]

\* the record an update writes back
updated_student(student, payload) ==
    [student EXCEPT !.name = payload.name, !.email = payload.email,
                    !.updated_at = Some(now)]

get_all_students ==
    /\ last' = Call("get_all", "Student", 0, <<>>, Ok(_get_all_students))
    /\ UNCHANGED <<cell, ID_COUNTER, BOOK_STORAGE, STUDENT_STORAGE, LOAN_STORAGE,
                   now, issued, deleted>>

\* (variant: the lookup is done with remove)
get_student_removing(id) ==
    /\ last' = Call("get", "Student", id, <<>>,
                    IF _get_student(id) # None THEN Ok(_get_student(id)[1])
                    ELSE NotFound(id))
    /\ STUDENT_STORAGE' = MapRemove(STUDENT_STORAGE, id)
    /\ UNCHANGED <<cell, ID_COUNTER, BOOK_STORAGE, LOAN_STORAGE, now, issued, deleted>>

get_student(id) ==
    /\ last' = Call("get", "Student", id, <<>>,
                    IF _get_student(id) # None THEN Ok(_get_student(id)[1])
                    ELSE NotFound(id))
    /\ UNCHANGED <<cell, ID_COUNTER, BOOK_STORAGE, STUDENT_STORAGE, LOAN_STORAGE,
                   now, issued, deleted>>

add_student(payload) ==
    IF StudentInvalid(payload)
    THEN /\ last' = Call("add", "Student", 0, payload, InvalidInput)
         /\ UNCHANGED <<cell, ID_COUNTER, BOOK_STORAGE, STUDENT_STORAGE, LOAN_STORAGE,
                        now, issued, deleted>>
    ELSE LET student == new_student(NextId, payload)
         IN /\ Allocate("Student")
            /\ STUDENT_STORAGE' = MapInsert(STUDENT_STORAGE, student.id,
                                          Student_to_bytes(student))
            /\ last' = Call("add", "Student", 0, payload, Ok(student))
            /\ UNCHANGED <<BOOK_STORAGE, LOAN_STORAGE, now, deleted>>

update_student(id, payload) ==
    IF StudentInvalid(payload)
    THEN /\ last' = Call("update", "Student", id, payload, InvalidInput)
         /\ UNCHANGED <<cell, ID_COUNTER, BOOK_STORAGE, STUDENT_STORAGE, LOAN_STORAGE,
                        now, issued, deleted>>
    ELSE IF _get_student(id) # None
    THEN LET student == updated_student(_get_student(id)[1], payload)
         IN /\ STUDENT_STORAGE' = MapInsert(STUDENT_STORAGE, student.id,
                                             Student_to_bytes(student))
            /\ last' = Call("update", "Student", id, payload, Ok(student))
            /\ UNCHANGED <<cell, ID_COUNTER, BOOK_STORAGE, LOAN_STORAGE,
                           now, issued, deleted>>
    ELSE /\ last' = Call("update", "Student", id, payload, NotFound(id))
         /\ UNCHANGED <<cell, ID_COUNTER, BOOK_STORAGE, STUDENT_STORAGE, LOAN_STORAGE,
                        now, issued, deleted>>

delete_student(id) ==
    IF id \in DOMAIN STUDENT_STORAGE
    THEN /\ STUDENT_STORAGE' = MapRemove(STUDENT_STORAGE, id)
         /\ last' = Call("delete", "Student", id, <<>>,
                         Ok(Student_from_bytes(STUDENT_STORAGE[id])))
         /\ deleted' = deleted \cup {<<"Student", id>>}
         /\ UNCHANGED <<cell, ID_COUNTER, BOOK_STORAGE, LOAN_STORAGE, now, issued>>
    ELSE /\ last' = Call("delete", "Student", id, <<>>, NotFound(id))
         /\ UNCHANGED <<cell, ID_COUNTER, BOOK_STORAGE, STUDENT_STORAGE, LOAN_STORAGE,
                        now, issued, deleted>>

(* ------------------------------ books --------------------------------- *)
_get_all_books ==
    [i \in 1..Cardinality(DOMAIN BOOK_STORAGE) |->
        Book_from_bytes(BOOK_STORAGE[SortedKeys(DOMAIN BOOK_STORAGE)[i]])]

\* (variant: a missing key falls back to the table's first entry)
_get_book_or_first(id) ==
    IF id \in DOMAIN BOOK_STORAGE THEN Some(Book_from_bytes(BOOK_STORAGE[id]))
    ELSE IF DOMAIN BOOK_STORAGE # {}
    THEN Some(Book_from_bytes(BOOK_STORAGE[SortedKeys(DOMAIN BOOK_STORAGE)[1]]))
    ELSE None

_get_book(id) ==
    IF id \in DOMAIN BOOK_STORAGE THEN Some(Book_from_bytes(BOOK_STORAGE[id])) ELSE None

BookInvalid(payload) == is_empty(trim(payload.title)) \/ is_empty(trim(payload.author))

\* (variant: the record carries the id after the one allocated)
new_book_next_id(id, payload) ==
    [id |-> id + 1, title |-> payload.title, author |-> payload.author,
     created_at |-> now, updated_at |-> None]

\* the record a create builds
new_book(id, payload) ==
    [id |-> id, title |-> payload.title, author |-> payload.author,
     created_at |-> now, updated_at |-> None]

\* the record an update writes back
updated_book(book, payload) ==
    [book EXCEPT !.title = payload.title, !.author = payload.author,
                 !.updated_at = Some(now)]

get_all_books ==
    /\ last' = Call("get_all", "Book", 0, <<>>, Ok(_get_all_books))
    /\ UNCHANGED <<cell, ID_COUNTER, STUDENT_STORAGE, BOOK_STORAGE, LOAN_STORAGE,
                   now, issued, deleted>>

get_book(id) ==
    /\ last' = Call("get", "Book", id, <<>>,
                    IF _get_book(id) # None THEN Ok(_get_book(id)[1]) ELSE NotFound(id))
    /\ UNCHANGED <<cell, ID_COUNTER, STUDENT_STORAGE, BOOK_STORAGE, LOAN_STORAGE,
                   now, issued, deleted>>

add_book(payload) ==
    IF BookInvalid(payload)
    THEN /\ last' = Call("add", "Book", 0, payload, InvalidInput)
         /\ UNCHANGED <<cell, ID_COUNTER, STUDENT_STORAGE, BOOK_STORAGE, LOAN_STORAGE,
                        now, issued, deleted>>
    ELSE LET book == new_book(NextId, payload)
         IN /\ Allocate("Book")
            /\ BOOK_STORAGE' = MapInsert(BOOK_STORAGE, book.id, Book_to_bytes(book))
            /\ last' = Call("add", "Book", 0, payload, Ok(book))
            /\ UNCHANGED <<STUDENT_STORAGE, LOAN_STORAGE, now, deleted>>

\* (variant: the id is looked up before the payload is validated)
update_book_lookup_first(id, payload) ==
    IF _get_book(id) = None
    THEN /\ last' = Call("update", "Book", id, payload, NotFound(id))
         /\ UNCHANGED <<cell, ID_COUNTER, STUDENT_STORAGE, BOOK_STORAGE, LOAN_STORAGE,
                        now, issued, deleted>>
    ELSE IF BookInvalid(payload)
    THEN /\ last' = Call("update", "Book", id, payload, InvalidInput)
         /\ UNCHANGED <<cell, ID_COUNTER, STUDENT_STORAGE, BOOK_STORAGE, LOAN_STORAGE,
                        now, issued, deleted>>
    ELSE LET book == updated_book(_get_book(id)[1], payload)
         IN /\ BOOK_STORAGE' = MapInsert(BOOK_STORAGE, book.id, Book_to_bytes(book))
            /\ last' = Call("update", "Book", id, payload, Ok(book))
            /\ UNCHANGED <<cell, ID_COUNTER, STUDENT_STORAGE, LOAN_STORAGE,
                           now, issued, deleted>>

update_book(id, payload) ==
    IF BookInvalid(payload)
    THEN /\ last' = Call("update", "Book", id, payload, InvalidInput)
         /\ UNCHANGED <<cell, ID_COUNTER, STUDENT_STORAGE, BOOK_STORAGE, LOAN_STORAGE,
                        now, issued, deleted>>
    ELSE IF _get_book(id) # None
    THEN LET book == updated_book(_get_book(id)[1], payload)
         IN /\ BOOK_STORAGE' = MapInsert(BOOK_STORAGE, book.id, Book_to_bytes(book))
            /\ last' = Call("update", "Book", id, payload, Ok(book))
            /\ UNCHANGED <<cell, ID_COUNTER, STUDENT_STORAGE, LOAN_STORAGE,
                           now, issued, deleted>>
    ELSE /\ last' = Call("update", "Book", id, payload, NotFound(id))
         /\ UNCHANGED <<cell, ID_COUNTER, STUDENT_STORAGE, BOOK_STORAGE, LOAN_STORAGE,
                        now, issued, deleted>>

delete_book(id) ==
    IF id \in DOMAIN BOOK_STORAGE
    THEN /\ BOOK_STORAGE' = MapRemove(BOOK_STORAGE, id)
         /\ last' = Call("delete", "Book", id, <<>>,
                         Ok(Book_from_bytes(BOOK_STORAGE[id])))
         /\ deleted' = deleted \cup {<<"Book", id>>}
         /\ UNCHANGED <<cell, ID_COUNTER, STUDENT_STORAGE, LOAN_STORAGE, now, issued>>
    ELSE /\ last' = Call("delete", "Book", id, <<>>, NotFound(id))
         /\ UNCHANGED <<cell, ID_COUNTER, STUDENT_STORAGE, BOOK_STORAGE, LOAN_STORAGE,
                        now, issued, deleted>>

(* ------------------------------ loans --------------------------------- *)
_get_all_loans ==
    [i \in 1..Cardinality(DOMAIN LOAN_STORAGE) |->
        Loan_from_bytes(LOAN_STORAGE[SortedKeys(DOMAIN LOAN_STORAGE)[i]])]

_get_loan(id) ==
    IF id \in DOMAIN LOAN_STORAGE THEN Some(Loan_from_bytes(LOAN_STORAGE[id])) ELSE None

\* (variant: loan_date is not validated)
LoanInvalid_ids_only(payload) == payload.student_id = 0 \/ payload.book_id = 0

\* (variant: a loan must name a stored student)
LoanInvalid_unless_student_exists(payload) ==
    \/ payload.student_id = 0 \/ payload.book_id = 0 \/ payload.loan_date = 0
    \/ payload.student_id \notin DOMAIN STUDENT_STORAGE

LoanInvalid(payload) ==
    payload.student_id = 0 \/ payload.book_id = 0 \/ payload.loan_date = 0

\* (variant: a create stamps updated_at as well)
new_loan_stamped(id, payload) ==
    [id |-> id, student_id |-> payload.student_id, book_id |-> payload.book_id,
     loan_date |-> payload.loan_date, created_at |-> now, updated_at |-> Some(now)]

\* the record a create builds
new_loan(id, payload) ==
    [id |-> id, student_id |-> payload.student_id, book_id |-> payload.book_id,
     loan_date |-> payload.loan_date, created_at |-> now, updated_at |-> None]

\* (variant: loan_date is not copied from the payload)
updated_loan_keeps_date(loan, payload) ==
    [loan EXCEPT !.student_id = payload.student_id, !.book_id = payload.book_id,
                 !.updated_at = Some(now)]

\* the record an update writes back
updated_loan(loan, payload) ==
    [loan EXCEPT !.student_id = payload.student_id, !.book_id = payload.book_id,
                 !.loan_date = payload.loan_date, !.updated_at = Some(now)]

get_all_loans ==
    /\ last' = Call("get_all", "Loan", 0, <<>>, Ok(_get_all_loans))
    /\ UNCHANGED <<cell, ID_COUNTER, STUDENT_STORAGE, LOAN_STORAGE, BOOK_STORAGE,
                   now, issued, deleted>>

get_loan(id) ==
    /\ last' = Call("get", "Loan", id, <<>>,
                    IF _get_loan(id) # None THEN Ok(_get_loan(id)[1]) ELSE NotFound(id))
    /\ UNCHANGED <<cell, ID_COUNTER, STUDENT_STORAGE, LOAN_STORAGE, BOOK_STORAGE,
                   now, issued, deleted>>

add_loan(payload) ==
    IF LoanInvalid(payload)
    THEN /\ last' = Call("add", "Loan", 0, payload, InvalidInput)
         /\ UNCHANGED <<cell, ID_COUNTER, STUDENT_STORAGE, LOAN_STORAGE, BOOK_STORAGE,
                        now, issued, deleted>>
    ELSE LET loan == new_loan(NextId, payload)
         IN /\ Allocate("Loan")
            /\ LOAN_STORAGE' = MapInsert(LOAN_STORAGE, loan.id, Loan_to_bytes(loan))
            /\ last' = Call("add", "Loan", 0, payload, Ok(loan))
            /\ UNCHANGED <<STUDENT_STORAGE, BOOK_STORAGE, now, deleted>>

update_loan(id, payload) ==
    IF LoanInvalid(payload)
    THEN /\ last' = Call("update", "Loan", id, payload, InvalidInput)
         /\ UNCHANGED <<cell, ID_COUNTER, STUDENT_STORAGE, LOAN_STORAGE, BOOK_STORAGE,
                        now, issued, deleted>>
    ELSE IF _get_loan(id) # None
    THEN LET loan == updated_loan(_get_loan(id)[1], payload)
         IN /\ LOAN_STORAGE' = MapInsert(LOAN_STORAGE, loan.id, Loan_to_bytes(loan))
            /\ last' = Call("update", "Loan", id, payload, Ok(loan))
            /\ UNCHANGED <<cell, ID_COUNTER, STUDENT_STORAGE, BOOK_STORAGE,
                           now, issued, deleted>>
    ELSE /\ last' = Call("update", "Loan", id, payload, NotFound(id))
         /\ UNCHANGED <<cell, ID_COUNTER, STUDENT_STORAGE, LOAN_STORAGE, BOOK_STORAGE,
                        now, issued, deleted>>

delete_loan(id) ==
    IF id \in DOMAIN LOAN_STORAGE
    THEN /\ LOAN_STORAGE' = MapRemove(LOAN_STORAGE, id)
         /\ last' = Call("delete", "Loan", id, <<>>,
                         Ok(Loan_from_bytes(LOAN_STORAGE[id])))
         /\ deleted' = deleted \cup {<<"Loan", id>>}
         /\ UNCHANGED <<cell, ID_COUNTER, STUDENT_STORAGE, BOOK_STORAGE, now, issued>>
    ELSE /\ last' = Call("delete", "Loan", id, <<>>, NotFound(id))
         /\ UNCHANGED <<cell, ID_COUNTER, STUDENT_STORAGE, LOAN_STORAGE, BOOK_STORAGE,
                        now, issued, deleted>>

(* ---------------------------- environment ------------------------------ *)
\* the host clock moves forward between calls
Tick ==
    /\ now < MaxTime
    /\ now' = now + 1
    /\ UNCHANGED <<cell, ID_COUNTER, STUDENT_STORAGE, BOOK_STORAGE, LOAN_STORAGE,
                   last, issued, deleted>>

\* the process restarts: thread-locals are dropped, durable memory stays
Restart ==
    /\ ID_COUNTER' = <<>>
    /\ UNCHANGED <<cell, last, STUDENT_STORAGE, BOOK_STORAGE, LOAN_STORAGE,
                   now, issued, deleted>>

Next ==
    \/ get_all_students
    \/ \E id \in IdInputs : get_student(id)
    \/ \E p \in StudentPayload : add_student(p)
    \/ \E id \in IdInputs, p \in StudentPayload : update_student(id, p)
    \/ \E id \in IdInputs : delete_student(id)
    \/ get_all_loans
    \/ \E id \in IdInputs : get_loan(id)
    \/ \E p \in LoanPayload : add_loan(p)
    \/ \E id \in IdInputs, p \in LoanPayload : update_loan(id, p)
    \/ \E id \in IdInputs : delete_loan(id)
    \/ get_all_books
    \/ \E id \in IdInputs : get_book(id)
    \/ \E p \in BookPayload : add_book(p)
    \/ \E id \in IdInputs, p \in BookPayload : update_book(id, p)
    \/ \E id \in IdInputs : delete_book(id)
    \/ Tick
    \/ Restart

Spec == Init /\ [][Next]_vars
(* ====================== properties of the store ======================== *)
Kinds == {"Student", "Book", "Loan"}

Table(kind) ==
    CASE kind = "Student" -> STUDENT_STORAGE
      [] kind = "Book" -> BOOK_STORAGE
      [] kind = "Loan" -> LOAN_STORAGE

\* what get(id) on table `kind` answers in the current state
Lookup(kind, id) ==
    CASE kind = "Student" -> _get_student(id)
      [] kind = "Book" -> _get_book(id)
      [] kind = "Loan" -> _get_loan(id)

IsCall(c, op) == c.op = op
Succeeded(c) == c.res.tag = "Ok"
\* a handler ran in this step and `last'` is its answer
Called(op) == last'.op = op /\ last' # last

SeqRange(q) == {q[i] : i \in 1..Len(q)}
IssuedIds == {e[2] : e \in SeqRange(issued)}
LatestIssued == issued[Len(issued)]

\* C1: a successful create followed, as the next call, by get of the returned
\* id on the same table succeeds with a record equal to the one create returned.
C1_CreateThenGet ==
    [][(/\ IsCall(last, "add") /\ Succeeded(last)
        /\ Called("get")
        /\ last'.kind = last.kind
        /\ last'.id = last.res.val.id)
       => last'.res = Ok(last.res.val)]_vars

\* a get has returned the newest record of the store exactly as create built it
C1_Witness ==
    /\ IsCall(last, "get") /\ Succeeded(last)
    /\ issued # <<>>
    /\ LatestIssued = <<last.kind, last.id>>
    /\ last.res.val.updated_at = None
    /\ last.res.val.created_at = now

\* C2: once delete(id) succeeded on a table, get(id) on it answers NotFound,
\* the id is in no table and in no get_all() answer, whatever calls follow.
C2_DeletedStaysAbsent ==
    /\ \A d \in deleted : \A k \in Kinds : d[2] \notin DOMAIN Table(k)
    /\ (IsCall(last, "get") /\ <<last.kind, last.id>> \in deleted)
          => last.res = NotFound(last.id)
    /\ IsCall(last, "get_all")
          => \A i \in 1..Len(last.res.val) :
                <<last.kind, last.res.val[i].id>> \notin deleted

\* get(id) was asked for a deleted id after a later create went into the same table
C2_Witness ==
    /\ IsCall(last, "get")
    /\ <<last.kind, last.id>> \in deleted
    /\ DOMAIN Table(last.kind) # {}
    /\ \A x \in DOMAIN Table(last.kind) : x > last.id

AllWhitespace(s) == \A i \in 1..Len(s) : s[i] \in {" ", "\t", "\n"}

\* the payloads the validating handlers are documented to reject
Rejected(kind, p) ==
    CASE kind = "Student" -> AllWhitespace(p.name) \/ AllWhitespace(p.email)
      [] kind = "Book" -> AllWhitespace(p.title) \/ AllWhitespace(p.author)
      [] kind = "Loan" -> p.student_id = 0 \/ p.book_id = 0 \/ p.loan_date = 0

NeverCreated(kind, id) == <<kind, id>> \notin SeqRange(issued)

\* C3 as stated: get, update with any payload, and delete of a never-created
\* id each answer NotFound(id).
C3_AnyPayloadNotFound ==
    (last.op \in {"get", "update", "delete"} /\ NeverCreated(last.kind, last.id))
        => last.res = NotFound(last.id)

\* C3: get and delete of a never-created id answer NotFound(id); update of a
\* never-created id answers NotFound(id) when its payload passes validation
\* and InvalidInput when it does not.
C3_NeverCreatedNotFound ==
    (last.op \in {"get", "update", "delete"} /\ NeverCreated(last.kind, last.id))
        => IF IsCall(last, "update") /\ Rejected(last.kind, last.payload)
           THEN last.res = InvalidInput
           ELSE last.res = NotFound(last.id)

\* update of a never-created id was refused while the table held another record
C3_Witness ==
    /\ IsCall(last, "update")
    /\ NeverCreated(last.kind, last.id)
    /\ last.res = NotFound(last.id)
    /\ DOMAIN Table(last.kind) # {}

\* the record stored under `id` in table `kind`, decoded
Stored(kind, id) == Lookup(kind, id)[1]

StoredTimesOrdered ==
    \A k \in Kinds : \A id \in DOMAIN Table(k) :
        Stored(k, id).updated_at # None
            => Stored(k, id).created_at <= Stored(k, id).updated_at[1]

\* C4: a successful update returns and stores a record with the id and
\* created_at it had, with updated_at >= created_at and >= any earlier
\* updated_at; every stored record with an updated_at has created_at <= it.
C4_UpdateKeepsIdAndCreation ==
    [][/\ (Called("update") /\ Succeeded(last'))
            => \A k \in Kinds, id \in IdInputs :
                 (last'.kind = k /\ last'.id = id)
                 => LET old == Stored(k, id)
                        new == last'.res.val
                    IN /\ new.id = old.id /\ new.id = id
                       /\ new.created_at = old.created_at
                       /\ new.updated_at # None
                       /\ new.updated_at[1] >= new.created_at
                       /\ old.updated_at # None
                            => new.updated_at[1] >= old.updated_at[1]
                       /\ Lookup(k, id)' = Some(new)
       /\ \/ UNCHANGED <<STUDENT_STORAGE, BOOK_STORAGE, LOAN_STORAGE>>
          \/ StoredTimesOrdered']_vars

\* a record created at an earlier time was updated, and the answer is what is stored
C4_Witness ==
    /\ IsCall(last, "update") /\ Succeeded(last)
    /\ Lookup(last.kind, last.id) = Some(last.res.val)
    /\ last.res.val.created_at < last.res.val.updated_at[1]

\* C5: a Student or Book create with a required text field empty after
\* trimming answers InvalidInput and changes neither the counter nor a table.
C5_BlankCreateAllocatesNothing ==
    [][(/\ Called("add")
        /\ last'.kind \in {"Student", "Book"}
        /\ Rejected(last'.kind, last'.payload))
       => /\ last'.res = InvalidInput
          /\ UNCHANGED <<cell, ID_COUNTER, STUDENT_STORAGE, BOOK_STORAGE, LOAN_STORAGE>>
          /\ UNCHANGED issued]_vars

\* a create with a blank text field was refused after ids had been issued
C5_Witness ==
    /\ IsCall(last, "add")
    /\ last.kind \in {"Student", "Book"}
    /\ Rejected(last.kind, last.payload)
    /\ last.res = InvalidInput
    /\ CounterValue > 0
CreatedIn(kind) == {e[2] : e \in {x \in SeqRange(issued) : x[1] = kind}}

\* C6: get_all() always succeeds with the records in strictly ascending id
\* order (hence pairwise distinct), answers the empty sequence on an empty
\* table, and while nothing was deleted from the table answers exactly the
\* records of its N successful creates, whatever the other tables received.
C6_GetAllAscending ==
    IsCall(last, "get_all")
        => /\ Succeeded(last)
           /\ DOMAIN Table(last.kind) = {} => last.res.val = <<>>
           /\ \A i, j \in 1..Len(last.res.val) :
                 i < j => last.res.val[i].id < last.res.val[j].id
           /\ (\A d \in deleted : d[1] # last.kind)
                 => /\ Len(last.res.val) = Cardinality(CreatedIn(last.kind))
                    /\ {last.res.val[i].id : i \in 1..Len(last.res.val)}
                         = CreatedIn(last.kind)

\* get_all() answered two or more records of a table nothing was deleted from
C6_Witness ==
    /\ IsCall(last, "get_all")
    /\ Len(last.res.val) >= 2
    /\ \A d \in deleted : d[1] # last.kind

DuneByHerbert == [title |-> Dune, author |-> Herbert]
DuneByFHerbert == [title |-> Dune, author |-> FHerbert]

\* the first create of a fresh store was a Book "Dune" by "Herbert"
FirstCreateWasDune(c) ==
    /\ IsCall(c, "add") /\ c.kind = "Book" /\ c.payload = DuneByHerbert
    /\ Succeeded(c)
    /\ Len(issued) = 1

\* C7 as stated: the first create on a fresh store returns the record with id 1.
C7_FirstIdIsOne ==
    FirstCreateWasDune(last) => last.res.val.id = 1

\* C7: on a fresh store the first create (Dune, Herbert) returns id 0 with
\* created_at = T and no updated_at; update(0, Dune, F. Herbert) returns that
\* record with the new author and updated_at = T' >= T; delete(0) returns
\* that record; get(0) then answers NotFound(0).
C7_Scenario ==
    [][/\ (Called("add") /\ issued = <<>> /\ last'.kind = "Book"
             /\ last'.payload = DuneByHerbert)
          => last'.res = Ok([id |-> 0, title |-> Dune, author |-> Herbert,
                             created_at |-> now, updated_at |-> None])
       /\ (FirstCreateWasDune(last) /\ Called("update") /\ last'.kind = "Book"
             /\ last'.id = 0 /\ last'.payload = DuneByFHerbert)
          => /\ last'.res = Ok([last.res.val EXCEPT !.author = FHerbert,
                                                    !.updated_at = Some(now)])
             /\ now >= last.res.val.created_at
       /\ (IsCall(last, "update") /\ Succeeded(last) /\ last.kind = "Book"
             /\ last.id = 0 /\ Called("delete") /\ last'.kind = "Book"
             /\ last'.id = 0)
          => last'.res = Ok(last.res.val)
       /\ (IsCall(last, "delete") /\ Succeeded(last) /\ last.kind = "Book"
             /\ last.id = 0 /\ Called("get") /\ last'.kind = "Book"
             /\ last'.id = 0)
          => last'.res = NotFound(0)]_vars

\* delete(0) returned the only record ever created, as the update left it
C7_Witness ==
    /\ IsCall(last, "delete") /\ last.kind = "Book" /\ last.id = 0
    /\ Succeeded(last)
    /\ issued = <<(<<"Book", 0>>)>>
    /\ last.res.val.title = Dune /\ last.res.val.author = FHerbert
    /\ last.res.val.updated_at # None
    /\ last.res.val.updated_at[1] > last.res.val.created_at

\* C8: the counter never decreases, and every id the allocator hands out
\* differs from every id it handed out before, deleted or not; a successful
\* create returns exactly that id.
C8_IdsNeverReused ==
    [][/\ CounterValue' >= CounterValue
       /\ issued' # issued
            => /\ Len(issued') = Len(issued) + 1
               /\ SubSeq(issued', 1, Len(issued)) = issued
               /\ issued'[Len(issued')][2] \notin IssuedIds
               /\ Called("add") /\ Succeeded(last')
               /\ last'.res.val.id = issued'[Len(issued')][2]
       /\ (Called("add") /\ Succeeded(last')) => issued' # issued]_vars

\* a create succeeded after an earlier record had been deleted
C8_Witness ==
    /\ IsCall(last, "add") /\ Succeeded(last)
    /\ deleted # {}
    /\ Len(issued) >= 2

AfterRestart == ID_COUNTER = <<>> /\ cell # <<>>

\* C9: a restart leaves the counter value and every table as they were, the
\* first id issued after it is above every id issued before it, and the
\* counter reads 0 only while the durable cell was never written.
C9_DurableAcrossRestart ==
    [][/\ (ID_COUNTER # <<>> /\ ID_COUNTER' = <<>>)
            => /\ CounterValue' = CounterValue
               /\ UNCHANGED <<cell, STUDENT_STORAGE, BOOK_STORAGE, LOAN_STORAGE>>
       /\ (ID_COUNTER = <<>> /\ issued' # issued)
            => \A e \in SeqRange(issued) : issued'[Len(issued')][2] > e[2]
       /\ (cell' # <<>>) => CounterValue' = cell'[1] /\ CounterValue' > 0
       /\ (cell' = <<>>) => CounterValue' = 0 /\ issued' = <<>>]_vars

\* the process restarted after ids were issued and records stored
C9_Witness ==
    /\ AfterRestart
    /\ Len(issued) >= 1
    /\ \E k \in Kinds : DOMAIN Table(k) # {}

\* C10: create and update answer InvalidInput exactly when a required text
\* field is empty or whitespace-only (Student, Book) or a required number is
\* zero (Loan); the refused call changes neither the counter nor a table.
C10_InvalidInputIffRejected ==
    [][(Called("add") \/ Called("update"))
        => /\ (last'.res = InvalidInput) <=> Rejected(last'.kind, last'.payload)
           /\ (last'.res = InvalidInput)
                => /\ UNCHANGED <<cell, ID_COUNTER, issued>>
                   /\ UNCHANGED <<STUDENT_STORAGE, BOOK_STORAGE, LOAN_STORAGE>>]_vars

\* an update of a stored Loan was refused for its zero loan_date alone
C10_Witness ==
    /\ IsCall(last, "update") /\ last.kind = "Loan"
    /\ last.id \in DOMAIN LOAN_STORAGE
    /\ last.payload.student_id # 0 /\ last.payload.book_id # 0
    /\ last.payload.loan_date = 0
    /\ last.res = InvalidInput

Tables == <<STUDENT_STORAGE, BOOK_STORAGE, LOAN_STORAGE>>

\* every table but `kind`'s
OtherTables(kind) == [k \in Kinds \ {kind} |-> Table(k)]

\* C11: delete(id) of a present id returns the record stored under it, removes
\* that key alone from that table and changes no other record, no other
\* table and not the counter; delete(id) of an absent id answers NotFound
\* and changes nothing.
C11_DeleteRemovesOnlyThatKey ==
    [][Called("delete")
        => \A k \in Kinds, id \in IdInputs :
             (last'.kind = k /\ last'.id = id)
             => /\ UNCHANGED <<cell, ID_COUNTER, issued>>
                /\ OtherTables(k)' = OtherTables(k)
                /\ IF id \in DOMAIN Table(k)
                   THEN /\ last'.res = Ok(Stored(k, id))
                        /\ DOMAIN Table(k)' = DOMAIN Table(k) \ {id}
                        /\ \A x \in DOMAIN Table(k)' : Table(k)'[x] = Table(k)[x]
                   ELSE /\ last'.res = NotFound(id)
                        /\ Table(k)' = Table(k)]_vars

\* a delete succeeded on a table that held a record with a lower id, which stays
C11_Witness ==
    /\ IsCall(last, "delete") /\ Succeeded(last)
    /\ \E x \in DOMAIN Table(last.kind) : x < last.id

\* C12: get(id) and get_all() change neither the counter nor any table,
\* whether they succeed or answer NotFound, and get_all() always succeeds.
C12_ReadsChangeNothing ==
    [][(Called("get") \/ Called("get_all"))
        => /\ UNCHANGED <<cell, ID_COUNTER, issued, deleted>>
           /\ Tables' = Tables
           /\ Called("get_all") => Succeeded(last')
           /\ Called("get") => last'.res.tag \in {"Ok", "NotFound"}]_vars

\* a get answered NotFound while the table it asked held a record
C12_Witness ==
    /\ IsCall(last, "get")
    /\ last.res = NotFound(last.id)
    /\ DOMAIN Table(last.kind) # {}

\* C13: a successful create uses the counter's value c as the id of its record
\* and leaves c + 1 in the counter and in the durable cell; every other step
\* leaves the counter's value as it was.
C13_CounterStepsByOne ==
    [][IF Called("add") /\ Succeeded(last')
       THEN /\ last'.res.val.id = CounterValue
            /\ CounterValue' = CounterValue + 1
            /\ cell' = Some(CounterValue + 1)
       ELSE CounterValue' = CounterValue]_vars

\* a create returned an id above 0, one below the counter's value
C13_Witness ==
    /\ IsCall(last, "add") /\ Succeeded(last)
    /\ last.res.val.id > 0
    /\ CounterValue = last.res.val.id + 1
    /\ cell = Some(CounterValue)

\* C14: update answers InvalidInput for a rejected payload whether or not the
\* id is present, answers NotFound exactly when the payload is accepted and
\* the id is absent, and a failed update changes no table and not the counter.
C14_UpdateValidatesFirst ==
    [][Called("update")
        => \A k \in Kinds, id \in IdInputs :
             (last'.kind = k /\ last'.id = id)
             => /\ Rejected(k, last'.payload) => last'.res = InvalidInput
                /\ (last'.res = NotFound(id))
                     <=> (~Rejected(k, last'.payload) /\ id \notin DOMAIN Table(k))
                /\ ~Succeeded(last')
                     => /\ Tables' = Tables
                        /\ UNCHANGED <<cell, ID_COUNTER, issued>>]_vars

\* an update with a rejected payload for an absent id was answered InvalidInput
C14_Witness ==
    /\ IsCall(last, "update")
    /\ Rejected(last.kind, last.payload)
    /\ last.id \notin DOMAIN Table(last.kind)
    /\ last.res = InvalidInput

\* the update-carried fields of a record of table `kind` are those of payload p
CarriesPayload(kind, rec, p) ==
    CASE kind = "Student" -> rec.name = p.name /\ rec.email = p.email
      [] kind = "Book" -> rec.title = p.title /\ rec.author = p.author
      [] kind = "Loan" -> /\ rec.student_id = p.student_id
                          /\ rec.book_id = p.book_id
                          /\ rec.loan_date = p.loan_date

\* C15: a record enters a table only by a create and then has no updated_at;
\* a successful update of it stores updated_at = Some(current time); no other
\* step changes the updated_at of a stored record.  Hence updated_at is
\* absent exactly while the record has not been updated since its creation.
C15_UpdatedAtTracksUpdates ==
    [][\/ Tables' = Tables
       \/ \A k \in Kinds, id \in IdInputs :
            /\ (id \notin DOMAIN Table(k) /\ id \in DOMAIN Table(k)')
                 => /\ Called("add") /\ last'.kind = k
                    /\ Stored(k, id)'.updated_at = None
            /\ (id \in DOMAIN Table(k) /\ id \in DOMAIN Table(k)')
                 => IF Called("update") /\ last'.kind = k /\ last'.id = id
                    THEN Stored(k, id)'.updated_at = Some(now)
                    ELSE Stored(k, id)'.updated_at = Stored(k, id).updated_at]_vars

\* a table holds a record that was updated and a record that was not
C15_Witness ==
    \E k \in Kinds : \E a, b \in DOMAIN Table(k) :
        /\ Stored(k, a).updated_at = None
        /\ Stored(k, b).updated_at # None

\* C16: a successful update stores, under the same key, the old record with
\* every payload-carried field replaced by the payload's value, and changes
\* no other record of the table, no other table and not the counter.
C16_UpdateReplacesPayloadFields ==
    [][(Called("update") /\ Succeeded(last'))
        => \A k \in Kinds, id \in IdInputs :
             (last'.kind = k /\ last'.id = id)
             => /\ CarriesPayload(k, last'.res.val, last'.payload)
                /\ Stored(k, id)' = last'.res.val
                /\ DOMAIN Table(k)' = DOMAIN Table(k)
                /\ \A x \in DOMAIN Table(k) \ {id} : Table(k)'[x] = Table(k)[x]
                /\ OtherTables(k)' = OtherTables(k)
                /\ UNCHANGED <<cell, ID_COUNTER, issued>>]_vars

\* an update changed every payload-carried field of a record while the table
\* held a second record
C16_Witness ==
    /\ IsCall(last, "update") /\ Succeeded(last) /\ last.kind = "Loan"
    /\ Stored("Loan", last.id) = last.res.val
    /\ last.payload = [student_id |-> 2, book_id |-> 1, loan_date |-> 2]
    /\ Cardinality(DOMAIN LOAN_STORAGE) = 2
    /\ \E x \in DOMAIN LOAN_STORAGE : Stored("Loan", x).student_id = 1

\* C17: when a successful create is followed, as the next call, by a
\* successful create on the same table with the same payload, the second
\* record gets another id and both records are then stored in the table.
C17_NoDeduplication ==
    [][(/\ IsCall(last, "add") /\ Succeeded(last)
        /\ Called("add") /\ Succeeded(last')
        /\ last'.kind = last.kind
        /\ last'.payload = last.payload)
       => \A k \in Kinds, first \in IdInputs :
            (last.kind = k /\ last.res.val.id = first)
            => /\ last'.res.val.id # first
               /\ Lookup(k, first)' = Some(last.res.val)
               /\ Cardinality(DOMAIN Table(k)') = Cardinality(DOMAIN Table(k)) + 1
               /\ \E x \in DOMAIN Table(k)' :
                    x # first /\ Stored(k, x)' = last'.res.val]_vars

\* a table holds two records with the same payload fields under different ids
C17_Witness ==
    /\ IsCall(last, "add") /\ Succeeded(last)
    /\ \E x \in DOMAIN Table(last.kind) :
         /\ x # last.res.val.id
         /\ CarriesPayload(last.kind, Stored(last.kind, x), last.payload)
    /\ Lookup(last.kind, last.res.val.id) = Some(last.res.val)

\* C18: every stored record is stored under its own id, that id is below the
\* counter's value, and the counter's value is a key of no table, so the
\* insert of the next create overwrites nothing.
C18_KeyIsIdBelowCounter ==
    \A k \in Kinds :
        /\ CounterValue \notin DOMAIN Table(k)
        /\ \A id \in DOMAIN Table(k) :
             Stored(k, id).id = id /\ id < CounterValue

\* two records are stored and the counter stands above both
C18_Witness ==
    /\ Cardinality(DOMAIN STUDENT_STORAGE \cup DOMAIN BOOK_STORAGE
                     \cup DOMAIN LOAN_STORAGE) >= 2
    /\ IsCall(last, "add") /\ Succeeded(last)

\* C19: no id is a key of two tables: the ids of the Student, Book and Loan
\* tables are pairwise disjoint, and each table holds only ids that were
\* issued to its own kind.
C19_TablesShareNoId ==
    /\ \A k1, k2 \in Kinds :
         k1 # k2 => DOMAIN Table(k1) \cap DOMAIN Table(k2) = {}
    /\ \A k \in Kinds : DOMAIN Table(k) \subseteq CreatedIn(k)
    /\ \A i, j \in 1..Len(issued) : i # j => issued[i][2] # issued[j][2]

\* two tables hold a record each; the second table's ids do not start at 0
C19_Witness ==
    \E k1, k2 \in Kinds :
        /\ k1 # k2
        /\ DOMAIN Table(k1) = {0}
        /\ DOMAIN Table(k2) # {}
        /\ 0 \notin DOMAIN Table(k2)

\* a Loan payload with no zero field
NonZeroLoan(p) == p.student_id # 0 /\ p.book_id # 0 /\ p.loan_date # 0

\* C20: no stored Loan has a zero student_id, book_id or loan_date; a Loan
\* create or update with no zero field is never answered InvalidInput, whether
\* or not the ids it names are stored; the first id ever issued is 0, so no
\* stored Loan names the first-created entity.
C20_LoansNameNonZeroIds ==
    /\ \A id \in DOMAIN LOAN_STORAGE : NonZeroLoan(Stored("Loan", id))
    /\ (last.op \in {"add", "update"} /\ last.kind = "Loan" /\ NonZeroLoan(last.payload))
          => last.res.tag # "InvalidInput"
    /\ (IsCall(last, "add") /\ last.kind = "Loan" /\ NonZeroLoan(last.payload))
          => Succeeded(last)
    /\ issued # <<>>
          => /\ issued[1][2] = 0
             /\ \A id \in DOMAIN LOAN_STORAGE :
                  /\ Stored("Loan", id).student_id # issued[1][2]
                  /\ Stored("Loan", id).book_id # issued[1][2]

\* a Loan was created that names a student and a book that are not stored,
\* while the first-created Student, with id 0, is
C20_Witness ==
    /\ IsCall(last, "add") /\ last.kind = "Loan" /\ Succeeded(last)
    /\ Lookup("Loan", last.res.val.id) = Some(last.res.val)
    /\ last.res.val.student_id \notin DOMAIN STUDENT_STORAGE
    /\ last.res.val.book_id \notin DOMAIN BOOK_STORAGE
    /\ DOMAIN STUDENT_STORAGE = {0}
====
